---- MODULE Spec2Model ----
(***************************************************************************)
(* CTR prediction service (services/ctr-predictor/main.py).                *)
(*                                                                         *)
(* State: the three module globals model / scaler / encoders, the          *)
(* lru_cache of predict_ctr_cached, the three artifact files on disk, and  *)
(* the reply of the last request.  One action per request handler; the     *)
(* handlers are `async def` without an await, so each runs to completion   *)
(* on the event loop before the next request is taken.                     *)
(*                                                                         *)
(* Python strings are tuples of character codes so that str(), the string  *)
(* order used by LabelEncoder (np.unique) and membership in classes_ are   *)
(* computed, not assumed.                                                  *)
(***************************************************************************)
EXTENDS Integers, Sequences, FiniteSets, TLC

VARIABLES model, scaler, encoders, cache, disk, response, training, runs

vars == <<model, scaler, encoders, cache, disk, response, training, runs>>

(***************************************************************************)
(* Bounds of the model.                                                    *)
(***************************************************************************)
\* lru_cache(maxsize=1000) scaled down so that eviction is reachable
maxsize == 2
\* number of training runs that get past the empty check
MaxRuns == 2
\* largest number of impression events / click events of one group
MaxImpressions == 4
MaxClicks == 2

(***************************************************************************)
(* Python values.                                                          *)
(***************************************************************************)
None == [py |-> "None"]

PyInt(n) == [t |-> "int", v |-> n]
PyFloat(n) == [t |-> "float", v |-> n]
PyNone == [t |-> "None", v |-> 0]

\* string literals as character codes
S_mobile == <<109, 111, 98, 105, 108, 101>>
S_desktop == <<100, 101, 115, 107, 116, 111, 112>>
S_tablet == <<116, 97, 98, 108, 101, 116>>
S_US == <<85, 83>>
S_UK == <<85, 75>>
S_CA == <<67, 65>>
S_None == <<78, 111, 110, 101>>

\* decimal digits of a natural number, as str(int) prints them
RECURSIVE Digits(_)
Digits(n) == IF n < 10 THEN <<48 + n>> ELSE Append(Digits(n \div 10), 48 + (n % 10))

\* str() of a value of a numeric column: "3" for an int, "3.0" for a float
Str(val) ==
    CASE val.t = "int" -> Digits(val.v)
      [] val.t = "float" -> Digits(val.v) \o <<46, 48>>
      [] OTHER -> S_None

\* Python's order on str: lexicographic by code point
StrLess(a, b) ==
    \E i \in 1..(Len(a) + 1) :
        /\ i - 1 <= Len(b)
        /\ \A j \in 1..(i - 1) : a[j] = b[j]
        /\ \/ i = Len(a) + 1 /\ Len(b) >= i
           \/ i <= Len(a) /\ i <= Len(b) /\ a[i] < b[i]


(***************************************************************************)
(* Events returned by the query of prepare_training_data.  An event        *)
(* carries (line_item_id, hour_of_day, day_of_week, device_type, country,  *)
(* publisher_id, event_type); the assembler only counts them per group,    *)
(* so a window is given by the impression and click count of each group.   *)
(***************************************************************************)
GroupKey(li, h, d, dev, c, pub) ==
    [line_item_id |-> li, hour_of_day |-> h, day_of_week |-> d,
     device_type |-> dev, country |-> c, publisher_id |-> pub]

\* the contexts that occur in the event store, in groupby (sorted key) order
Groups ==
    << GroupKey(9, 10, 2, S_mobile, S_US, PyInt(1)),
       GroupKey(10, 20, 5, S_desktop, S_UK, PyInt(2)),
       GroupKey(9, 10, 2, S_mobile, S_US, PyNone) >>

NumGroups == Len(Groups)

Counts(i, c) == [impressions |-> i, clicks |-> c]

CountChoices ==
    { Counts(i, c) : i \in {0, 1, MaxImpressions}, c \in 0..MaxClicks }

\* events whose publisher_id is NULL
NullPublisherChoices == { Counts(0, 0), Counts(1, 0), Counts(MaxImpressions, 1) }

Windows ==
    { <<a, b, c>> : a \in CountChoices, b \in CountChoices, c \in NullPublisherChoices }

MinImpressionsChoices == {1, 2, MaxImpressions + 1}

NumEvents(w) == w[1].impressions + w[1].clicks + w[2].impressions + w[2].clicks
                + w[3].impressions + w[3].clicks

HasEvents(w, g) == w[g].impressions + w[g].clicks > 0

Min(a, b) == IF a <= b THEN a ELSE b
Max(a, b) == IF a >= b THEN a ELSE b

\* pd.DataFrame(result): a column of ints with a None in it becomes float64
PublisherColumnIsFloat(w) ==
    /\ \E g \in 1..NumGroups : HasEvents(w, g) /\ Groups[g].publisher_id.t = "None"
    /\ \E g \in 1..NumGroups : HasEvents(w, g) /\ Groups[g].publisher_id.t = "int"

\* the publisher value of a group key as groupby yields it
GroupedPublisher(w, g) ==
    IF PublisherColumnIsFloat(w) THEN PyFloat(Groups[g].publisher_id.v)
    ELSE Groups[g].publisher_id

\* groupby(...) has dropna=True: a group whose key holds a null is not iterated
GroupIterated(w, g) == HasEvents(w, g) /\ Groups[g].publisher_id.t # "None"

Sample(w, g, clicked) ==
    [line_item_id |-> Groups[g].line_item_id,
     hour_of_day |-> Groups[g].hour_of_day,
     day_of_week |-> Groups[g].day_of_week,
     device_type |-> Groups[g].device_type,
     country |-> Groups[g].country,
     publisher_id |-> GroupedPublisher(w, g),
     clicked |-> clicked]

\* range(n) iterates Max(n, 0) times
Repeat(x, n) == [i \in 1..Max(n, 0) |-> x]

\* variant: every non-clicked impression becomes a negative sample
sample_size_uncapped(impressions, clicks) == impressions - clicks

\* sample_size = min(non_clicks, clicks * 3)
sample_size(impressions, clicks) == Min(impressions - clicks, clicks * 3)

\* variant: the threshold is not applied
Retained_all(impressions, min_impressions) == TRUE

\* the retention test of a group
Retained(impressions, min_impressions) == impressions >= min_impressions

\* the samples appended for one group
GroupSamples(w, g, min_impressions) ==
    IF GroupIterated(w, g) /\ Retained(w[g].impressions, min_impressions)
    THEN Repeat(Sample(w, g, 1), w[g].clicks)
         \o Repeat(Sample(w, g, 0), sample_size(w[g].impressions, w[g].clicks))
    ELSE <<>>

RECURSIVE AppendGroups(_, _, _)
AppendGroups(w, g, min_impressions) ==
    IF g = 0 THEN <<>>
    ELSE AppendGroups(w, g - 1, min_impressions) \o GroupSamples(w, g, min_impressions)

\* prepare_training_data: the rows of training_df (empty when no event)
prepare_training_data(w, min_impressions) ==
    IF NumEvents(w) = 0 THEN <<>>
    ELSE AppendGroups(w, NumGroups, min_impressions)


(***************************************************************************)
(* LabelEncoder: fit keeps the sorted distinct strings (np.unique),        *)
(* transform returns the 0-based position in that order.                   *)
(***************************************************************************)
MinStr(S) == CHOOSE s \in S : \A t \in S : t = s \/ StrLess(s, t)

RECURSIVE SortedSeq(_)
SortedSeq(S) ==
    IF S = {} THEN <<>>
    ELSE LET m == MinStr(S) IN <<m>> \o SortedSeq(S \ {m})

\* the distinct values in order of first occurrence
RECURSIVE FirstOccurrences(_, _)
FirstOccurrences(values, i) ==
    IF i = 0 THEN <<>>
    ELSE LET prefix == FirstOccurrences(values, i - 1)
         IN  IF \E j \in 1..Len(prefix) : prefix[j] = values[i]
             THEN prefix ELSE Append(prefix, values[i])

\* variant: codes are assigned in order of first occurrence, without sorting
fit_encounter_order(values) == FirstOccurrences(values, Len(values))

\* le.fit(values): classes_ of the fitted encoder
fit(values) == SortedSeq({ values[i] : i \in 1..Len(values) })

InClasses(classes, s) == \E i \in 1..Len(classes) : classes[i] = s

\* le.transform([s])[0] for s in classes_
transform(classes, s) == (CHOOSE i \in 1..Len(classes) : classes[i] = s) - 1

CategoricalColumns == {"line_item_id", "device_type", "country", "publisher_id"}

\* X[col].astype(str): the column of a training frame as strings
ColumnAsStr(df, col) ==
    [i \in 1..Len(df) |->
        CASE col = "line_item_id" -> Digits(df[i].line_item_id)
          [] col = "device_type" -> df[i].device_type
          [] col = "country" -> df[i].country
          [] OTHER -> Str(df[i].publisher_id)]

\* the encoders dict built by the loop of train_model
FitEncoders(df, run) ==
    [run |-> run,
     classes |-> [col \in CategoricalColumns |-> fit(ColumnAsStr(df, col))]]

(***************************************************************************)
(* Engineered features.                                                    *)
(***************************************************************************)
is_weekend(day_of_week) == IF day_of_week \in {5, 6} THEN 1 ELSE 0
\* variant: the upper end of business hours is exclusive
is_business_hours_exclusive(hour_of_day) ==
    IF 9 <= hour_of_day /\ hour_of_day < 17 THEN 1 ELSE 0

is_business_hours(hour_of_day) == IF 9 <= hour_of_day /\ hour_of_day <= 17 THEN 1 ELSE 0
is_evening(hour_of_day) == IF 18 <= hour_of_day /\ hour_of_day <= 22 THEN 1 ELSE 0

\* row i of X in train_model after encoding and feature engineering
TrainFeatures(df, enc, i) ==
    << transform(enc.classes["line_item_id"], ColumnAsStr(df, "line_item_id")[i]),
       transform(enc.classes["device_type"], ColumnAsStr(df, "device_type")[i]),
       transform(enc.classes["country"], ColumnAsStr(df, "country")[i]),
       transform(enc.classes["publisher_id"], ColumnAsStr(df, "publisher_id")[i]),
       df[i].hour_of_day,
       df[i].day_of_week,
       is_weekend(df[i].day_of_week),
       is_business_hours(df[i].hour_of_day),
       is_evening(df[i].hour_of_day) >>

(***************************************************************************)
(* The stratified 80/20 split, the fit and the evaluation of train_model.  *)
(* Sample counts stay below 15, where ceil(0.2 * n) is exact.              *)
(***************************************************************************)
NumPositive(df) == Cardinality({ i \in 1..Len(df) : df[i].clicked = 1 })
NumNegative(df) == Cardinality({ i \in 1..Len(df) : df[i].clicked = 0 })
NumClasses(df) == (IF NumPositive(df) > 0 THEN 1 ELSE 0) + (IF NumNegative(df) > 0 THEN 1 ELSE 0)

n_test(df) == (Len(df) + 4) \div 5
n_train(df) == Len(df) - n_test(df)

MinClassCount(df) ==
    IF NumPositive(df) = 0 THEN NumNegative(df)
    ELSE IF NumNegative(df) = 0 THEN NumPositive(df)
    ELSE Min(NumPositive(df), NumNegative(df))

\* train_test_split(..., test_size=0.2, stratify=y) raises ValueError
SplitRaises(df) ==
    \/ n_train(df) = 0
    \/ MinClassCount(df) < 2
    \/ n_train(df) < NumClasses(df)
    \/ n_test(df) < NumClasses(df)

\* LogisticRegression.fit raises ValueError: y_train holds a single class
FitRaises(df) == NumClasses(df) < 2

\* members of a class of size c that the stratified split may put in the
\* training part (largest remainder, ties broken by the seeded generator)
TrainShare(df, c, other) ==
    LET n == Len(df)
        floor_c == (n_train(df) * c) \div n
        floor_o == (n_train(df) * other) \div n
        rem_c == (n_train(df) * c) % n
        rem_o == (n_train(df) * other) % n
        need == n_train(df) - floor_c - floor_o
    IN  IF need = 0 THEN {floor_c}
        ELSE IF rem_c > rem_o THEN {floor_c + 1}
        ELSE IF rem_c < rem_o THEN {floor_c}
        ELSE {floor_c, floor_c + 1}

\* roc_auc_score raises ValueError: y_test holds a single class
AucMayRaise(df) ==
    \/ NumPositive(df) \in TrainShare(df, NumPositive(df), NumNegative(df))
    \/ NumNegative(df) \in TrainShare(df, NumNegative(df), NumPositive(df))

AucMayPass(df) ==
    \E p \in TrainShare(df, NumPositive(df), NumNegative(df)) :
        /\ p < NumPositive(df)
        /\ n_train(df) - p < NumNegative(df)


(***************************************************************************)
(* train_model.  The three globals are assigned one after the other; an    *)
(* exception leaves the assignments made so far in place.                  *)
(***************************************************************************)
Bundle(m, s, e) == [model |-> m, scaler |-> s, encoders |-> e]

NewScaler(run) == [run |-> run]
NewModel(run, fitted) == [run |-> run, fitted |-> fitted]

\* whether roc_auc_score raises, as far as the split allows either
AucOutcomes(df) ==
    { b \in BOOLEAN : IF b THEN AucMayRaise(df) ELSE AucMayPass(df) }

\* variant: the codebooks are reset before the empty check
train_model_reset_first(df, run, old, auc_raises) ==
    IF Len(df) = 0
    THEN [raised |-> "ValueError: No training data available",
          bundle |-> Bundle(old.model, old.scaler, FitEncoders(df, run))]
    ELSE IF SplitRaises(df)
    THEN [raised |-> "ValueError: train_test_split",
          bundle |-> Bundle(old.model, NewScaler(run), FitEncoders(df, run))]
    ELSE IF FitRaises(df)
    THEN [raised |-> "ValueError: fit",
          bundle |-> Bundle(NewModel(run, FALSE), NewScaler(run), FitEncoders(df, run))]
    ELSE IF auc_raises
    THEN [raised |-> "ValueError: roc_auc_score",
          bundle |-> Bundle(NewModel(run, TRUE), NewScaler(run), FitEncoders(df, run))]
    ELSE [raised |-> "none",
          bundle |-> Bundle(NewModel(run, TRUE), NewScaler(run), FitEncoders(df, run))]

\* the globals after train_model(training_df) and the exception it raised
train_model(df, run, old, auc_raises) ==
    IF Len(df) = 0
    THEN [raised |-> "ValueError: No training data available", bundle |-> old]
    ELSE IF SplitRaises(df)
    THEN [raised |-> "ValueError: train_test_split",
          bundle |-> Bundle(old.model, NewScaler(run), FitEncoders(df, run))]
    ELSE IF FitRaises(df)
    THEN [raised |-> "ValueError: fit",
          bundle |-> Bundle(NewModel(run, FALSE), NewScaler(run), FitEncoders(df, run))]
    ELSE IF auc_raises
    THEN [raised |-> "ValueError: roc_auc_score",
          bundle |-> Bundle(NewModel(run, TRUE), NewScaler(run), FitEncoders(df, run))]
    ELSE [raised |-> "none",
          bundle |-> Bundle(NewModel(run, TRUE), NewScaler(run), FitEncoders(df, run))]

(***************************************************************************)
(* Serving: predict_ctr_internal, the lru_cache and predict_ctr.           *)
(***************************************************************************)
Request(li, dev, c, pub, h, d) ==
    [line_item_id |-> li, hour_of_day |-> h, day_of_week |-> d,
     device_type |-> dev, country |-> c, publisher_id |-> pub]

PredictionRequests ==
    { Request(9, S_mobile, S_US, PyNone, 10, 2),
      Request(9, S_mobile, S_US, PyInt(0), 10, 2),
      Request(10, S_desktop, S_UK, PyInt(2), 20, 5),
      Request(7, S_tablet, S_CA, PyInt(1), 20, 6) }

\* variant: an absent publisher keeps a key of its own
OrZero_absent_apart(pub) == IF pub.t = "None" THEN 0 - 1 ELSE pub.v

\* publisher_id or 0
OrZero(pub) == IF pub.t = "None" \/ pub.v = 0 THEN 0 ELSE pub.v

\* the argument tuple predict_ctr passes on, which is the cache key
CacheKey(req) ==
    << req.line_item_id, req.device_type, req.country,
       OrZero(req.publisher_id), req.hour_of_day, req.day_of_week >>

\* code of a categorical value at serving time: the learned position if the
\* string is in classes_, else what features[k] held before
Encode(enc, col, s, initial) ==
    IF InClasses(enc.classes[col], s) THEN transform(enc.classes[col], s) ELSE initial

\* the 9 features predict_ctr_internal assembles
ServeFeatures(enc, key) ==
    << Encode(enc, "line_item_id", Digits(key[1]), key[1]),
       Encode(enc, "device_type", key[2], 0),
       Encode(enc, "country", key[3], 0),
       Encode(enc, "publisher_id", Digits(OrZero(PyInt(key[4]))), 0),
       key[5],
       key[6],
       is_weekend(key[6]),
       is_business_hours(key[5]),
       is_evening(key[5]) >>

RECURSIVE SumSeq(_)
SumSeq(x) == IF x = <<>> THEN 0 ELSE Head(x) + SumSeq(Tail(x))

\* probabilities[1] in permille.  The fitted parameters are not computed;
\* the value is a fixed function of the run that fitted the classifier, the
\* run that fitted the scaler and the feature vector, and `by` in a score
\* records these three so that scores of different bundles stay apart
predict_proba(m, s, x) == (331 * m.run + 97 * s.run + 13 * SumSeq(x)) % 1001

Score(probability, confidence, by) ==
    [probability |-> probability, confidence |-> confidence, by |-> by]

\* return 0.01, 0.5
DefaultScore == Score(10, 500, <<>>)

\* variant: the error of an unfitted classifier is not caught
predict_ctr_internal_propagates(key, b) ==
    IF b.model = None \/ b.scaler = None \/ b.encoders = None
    THEN [raised |-> TRUE, value |-> DefaultScore]
    ELSE IF ~b.model.fitted
    THEN [raised |-> TRUE, value |-> DefaultScore]
    ELSE LET x == ServeFeatures(b.encoders, key)
             p == predict_proba(b.model, b.scaler, x)
         IN  [raised |-> FALSE,
              value |-> Score(p, Max(p, 1000 - p), <<b.model.run, b.scaler.run, x>>)]

\* variant: the confidence is the probability of a click
predict_ctr_internal_click_confidence(key, b) ==
    IF b.model = None \/ b.scaler = None \/ b.encoders = None
    THEN [raised |-> TRUE, value |-> DefaultScore]
    ELSE IF ~b.model.fitted
    THEN [raised |-> FALSE, value |-> DefaultScore]
    ELSE LET x == ServeFeatures(b.encoders, key)
             p == predict_proba(b.model, b.scaler, x)
         IN  [raised |-> FALSE,
              value |-> Score(p, p, <<b.model.run, b.scaler.run, x>>)]

\* predict_ctr_internal: raises when a global is None, else returns a score
predict_ctr_internal(key, b) ==
    IF b.model = None \/ b.scaler = None \/ b.encoders = None
    THEN [raised |-> TRUE, value |-> DefaultScore]
    ELSE IF ~b.model.fitted
    THEN [raised |-> FALSE, value |-> DefaultScore]
    ELSE LET x == ServeFeatures(b.encoders, key)
             p == predict_proba(b.model, b.scaler, x)
         IN  [raised |-> FALSE,
              value |-> Score(p, Max(p, 1000 - p), <<b.model.run, b.scaler.run, x>>)]

CacheHas(c, key) == \E i \in 1..Len(c) : c[i].key = key
CacheIndex(c, key) == CHOOSE i \in 1..Len(c) : c[i].key = key
CacheValue(c, key) == c[CacheIndex(c, key)].value
RemoveAt(c, i) == [j \in 1..(Len(c) - 1) |-> IF j < i THEN c[j] ELSE c[j + 1]]

\* variant: a full cache drops its most recently used entry
CacheInsert_drops_newest(c, key, value) ==
    LET kept == IF Len(c) >= maxsize THEN SubSeq(c, 1, Len(c) - 1) ELSE c
    IN  Append(kept, [key |-> key, value |-> value])

\* lru_cache(maxsize): the entries from least to most recently used
CacheInsert(c, key, value) ==
    LET kept == IF Len(c) >= maxsize THEN Tail(c) ELSE c
    IN  Append(kept, [key |-> key, value |-> value])

\* variant: no memoization, every call is scored
predict_ctr_cached_uncached(c, key, b) ==
    LET r == predict_ctr_internal(key, b)
    IN  [raised |-> r.raised, value |-> r.value, internal_calls |-> 1,
         cache |-> IF r.raised THEN c
                   ELSE IF CacheHas(c, key)
                   THEN Append(RemoveAt(c, CacheIndex(c, key)), [key |-> key, value |-> r.value])
                   ELSE CacheInsert(c, key, r.value)]

\* variant: an entry computed by another classifier is scored again
predict_ctr_cached_fresh(c, key, b) ==
    IF /\ CacheHas(c, key)
       /\ \/ CacheValue(c, key).by = <<>>
          \/ b.model = None
          \/ CacheValue(c, key).by[1] = b.model.run
    THEN [raised |-> FALSE, value |-> CacheValue(c, key), internal_calls |-> 0,
          cache |-> Append(RemoveAt(c, CacheIndex(c, key)), c[CacheIndex(c, key)])]
    ELSE LET r == predict_ctr_internal(key, b)
             kept == IF CacheHas(c, key) THEN RemoveAt(c, CacheIndex(c, key)) ELSE c
         IN  [raised |-> r.raised, value |-> r.value, internal_calls |-> 1,
              cache |-> IF r.raised THEN c ELSE CacheInsert(kept, key, r.value)]

\* variant: the default of a scoring fault is returned but not stored
predict_ctr_cached_skips_default(c, key, b) ==
    IF CacheHas(c, key)
    THEN [raised |-> FALSE, value |-> CacheValue(c, key), internal_calls |-> 0,
          cache |-> Append(RemoveAt(c, CacheIndex(c, key)), c[CacheIndex(c, key)])]
    ELSE LET r == predict_ctr_internal(key, b)
         IN  [raised |-> r.raised, value |-> r.value, internal_calls |-> 1,
              cache |-> IF r.raised \/ r.value = DefaultScore THEN c
                        ELSE CacheInsert(c, key, r.value)]

\* predict_ctr_cached: a hit returns the stored value and refreshes the
\* entry; a miss calls predict_ctr_internal and stores what it returns
predict_ctr_cached(c, key, b) ==
    IF CacheHas(c, key)
    THEN [raised |-> FALSE, value |-> CacheValue(c, key), internal_calls |-> 0,
          cache |-> Append(RemoveAt(c, CacheIndex(c, key)), c[CacheIndex(c, key)])]
    ELSE LET r == predict_ctr_internal(key, b)
         IN  [raised |-> r.raised, value |-> r.value, internal_calls |-> 1,
              cache |-> IF r.raised THEN c ELSE CacheInsert(c, key, r.value)]

\* predict_ctr
predict_ctr(c, req, b) == predict_ctr_cached(c, CacheKey(req), b)


(***************************************************************************)
(* Persistence: save_models writes the three files in turn, load_models    *)
(* reads the ones that exist.                                              *)
(***************************************************************************)
\* the files after save_models wrote `written` of them and then failed
\* (written = 3: no failure)
save_models(d, b, written) ==
    Bundle(IF written >= 1 THEN b.model ELSE d.model,
           IF written >= 2 THEN b.scaler ELSE d.scaler,
           IF written >= 3 THEN b.encoders ELSE d.encoders)

SaveOutcomes == 0..3

\* the globals after load_models at startup (they are None before it)
load_models(d, load_raises) ==
    IF load_raises THEN Bundle(None, None, None) ELSE d

\* pickle.load can only raise if there is a file to read
LoadOutcomes(d) ==
    IF d = Bundle(None, None, None) THEN {FALSE} ELSE BOOLEAN

(***************************************************************************)
(* The boost multiplier of /predict, in permille.                          *)
(***************************************************************************)
\* baseline_ctr = 0.01
baseline_ctr == 10

\* variant: the floor of 0.5 is not applied
boost_multiplier_unfloored(ctr_score) ==
    Min((ctr_score * 1000) \div baseline_ctr, 2000)

\* min(ctr_score / baseline_ctr, 2.0), then max(..., 0.5)
boost_multiplier(ctr_score) ==
    Max(Min((ctr_score * 1000) \div baseline_ctr, 2000), 500)

(***************************************************************************)
(* State machine.                                                          *)
(***************************************************************************)
Current == Bundle(model, scaler, encoders)

NoWindow == [g \in 1..NumGroups |-> Counts(0, 0)]

Init ==
    /\ model = None
    /\ scaler = None
    /\ encoders = None
    /\ cache = <<>>
    /\ disk = Bundle(None, None, None)
    /\ response = [op |-> "startup", status |-> 0]
    /\ training = [min_impressions |-> 1, df |-> <<>>, called |-> FALSE, window |-> NoWindow]
    /\ runs = 0

\* variant: the availability check is missing
ModelUnavailable_never(m) == FALSE

\* `if model is None` of /predict
ModelUnavailable(m) == m = None

\* POST /predict
\* variant: a request that ends in an error drops the scaler
Predict_drops_scaler(req) ==
    /\ IF ModelUnavailable(model)
       THEN /\ response' = [op |-> "predict", status |-> 503, detail |-> "Model not trained",
                            request |-> req]
            /\ cache' = cache
            /\ scaler' = scaler
       ELSE \E r \in {predict_ctr(cache, req, Current)} :
                /\ cache' = r.cache
                /\ scaler' = IF r.raised THEN None ELSE scaler
                /\ response' =
                     IF r.raised
                     THEN [op |-> "predict", status |-> 500, detail |-> "Prediction failed",
                           request |-> req, internal_calls |-> r.internal_calls]
                     ELSE [op |-> "predict", status |-> 200, request |-> req,
                           ctr_score |-> r.value.probability,
                           confidence |-> r.value.confidence,
                           boost_multiplier |-> boost_multiplier(r.value.probability),
                           by |-> r.value.by,
                           internal_calls |-> r.internal_calls,
                           evicted |-> IF r.internal_calls = 1 /\ r.cache # cache
                                          /\ Len(r.cache) = Len(cache)
                                       THEN <<Head(cache).key>> ELSE <<>>]
    /\ UNCHANGED <<model, encoders, disk, training, runs>>

\* POST /predict
Predict(req) ==
    /\ IF ModelUnavailable(model)
       THEN /\ response' = [op |-> "predict", status |-> 503, detail |-> "Model not trained",
                            request |-> req]
            /\ cache' = cache
       ELSE \E r \in {predict_ctr(cache, req, Current)} :
                /\ cache' = r.cache
                /\ response' =
                     IF r.raised
                     THEN [op |-> "predict", status |-> 500, detail |-> "Prediction failed",
                           request |-> req, internal_calls |-> r.internal_calls]
                     ELSE [op |-> "predict", status |-> 200, request |-> req,
                           ctr_score |-> r.value.probability,
                           confidence |-> r.value.confidence,
                           boost_multiplier |-> boost_multiplier(r.value.probability),
                           by |-> r.value.by,
                           internal_calls |-> r.internal_calls,
                           evicted |-> IF r.internal_calls = 1 /\ r.cache # cache
                                          /\ Len(r.cache) = Len(cache)
                                       THEN <<Head(cache).key>> ELSE <<>>]
    /\ UNCHANGED <<model, scaler, encoders, disk, training, runs>>

\* the windows the service is trained on: no event, one click-only sample,
\* positives only, and two balanced groups with or without an event that
\* lacks a publisher
TrainingWindows ==
    { w \in Windows :
        /\ w[1] \in { Counts(0, 0), Counts(1, 1), Counts(1, 2), Counts(MaxImpressions, 2) }
        /\ w[2] = IF w[1].impressions = MaxImpressions THEN w[1] ELSE Counts(0, 0)
        /\ w[3] \in { Counts(0, 0), Counts(1, 0) }
        /\ w[3] = Counts(1, 0) => w[1] = Counts(MaxImpressions, 2) }

\* the frames train_model is called on directly: empty, or a single sample
DirectWindows ==
    { w \in TrainingWindows : w[1] \in { Counts(0, 0), Counts(1, 1) } }

\* training_df = prepare_training_data(...), tabulated over the windows and
\* thresholds
training_df ==
    [w \in Windows, min_impressions \in MinImpressionsChoices |->
        prepare_training_data(w, min_impressions)]

\* the evaluation outcome is an input only when train_model gets that far
TrainInputs(df) ==
    IF Len(df) = 0 \/ SplitRaises(df) \/ FitRaises(df) THEN {FALSE} ELSE AucOutcomes(df)

\* save_models runs only after train_model returned
SaveInputs(t) == IF t.raised = "none" THEN SaveOutcomes ELSE {3}

\* POST /train; the failure of the query, the outcome of the evaluation and
\* the number of files save_models gets to write are inputs
TrainEndpoint(w, min_impressions, query_raises) ==
    IF query_raises
    THEN \* client.execute raised: prepare_training_data logs and re-raises
         /\ response' = [op |-> "train", status |-> 500,
                         detail |-> "Training failed: query"]
         /\ UNCHANGED <<model, scaler, encoders, cache, disk, training, runs>>
    ELSE
    \E df \in {training_df[w, min_impressions]} :
        /\ Len(df) > 0 => runs < MaxRuns
        /\ training' = [min_impressions |-> min_impressions, df |-> df,
                        called |-> TRUE, window |-> w]
        /\ IF Len(df) = 0
           THEN \* the HTTPException(400) raised in the try block is caught
                \* by `except Exception` and re-raised as a 500
                /\ response' = [op |-> "train", status |-> 500,
                                detail |-> "Training failed: 400: No training data available"]
                /\ UNCHANGED <<model, scaler, encoders, disk, runs>>
           ELSE \E auc_raises \in TrainInputs(df) :
                \E t \in {train_model(df, runs + 1, Current, auc_raises)} :
                \E written \in SaveInputs(t) :
                    /\ runs' = runs + 1
                    /\ model' = t.bundle.model
                    /\ scaler' = t.bundle.scaler
                    /\ encoders' = t.bundle.encoders
                    /\ IF t.raised # "none"
                       THEN /\ response' = [op |-> "train", status |-> 500,
                                            detail |-> "Training failed: " \o t.raised]
                            /\ disk' = disk
                       ELSE /\ disk' = save_models(disk, t.bundle, written)
                            /\ response' =
                                 IF written = 3
                                 THEN [op |-> "train", status |-> 200, detail |-> "success"]
                                 ELSE [op |-> "train", status |-> 500,
                                       detail |-> "Training failed: OSError"]
        /\ UNCHANGED cache

\* a direct call train_model(training_df) on an assembled frame
TrainModel(w, min_impressions) ==
    \E df \in {training_df[w, min_impressions]} :
        /\ Len(df) > 0 => runs < MaxRuns
        /\ training' = [min_impressions |-> min_impressions, df |-> df,
                        called |-> TRUE, window |-> w]
        /\ \E auc_raises \in TrainInputs(df) :
           \E t \in {train_model(df, runs + 1, Current, auc_raises)} :
            /\ runs' = IF Len(df) > 0 THEN runs + 1 ELSE runs
            /\ model' = t.bundle.model
            /\ scaler' = t.bundle.scaler
            /\ encoders' = t.bundle.encoders
            /\ response' = [op |-> "train_model", status |-> 0, detail |-> t.raised]
        /\ UNCHANGED <<cache, disk>>

\* the process is restarted: lifespan calls load_models, the cache is empty.
\* load_models returns in every case and lifespan yields: status 0 stands for
\* an application that started and takes requests
Startup(load_raises) ==
    /\ load_raises \in LoadOutcomes(disk)
    /\ LET b == load_models(disk, load_raises)
       IN  /\ model' = b.model
           /\ scaler' = b.scaler
           /\ encoders' = b.encoders
    /\ cache' = <<>>
    /\ response' = [op |-> "startup", status |-> 0]
    /\ UNCHANGED <<disk, training, runs>>

Next ==
    \/ \E req \in PredictionRequests : Predict(req)
    \/ \E w \in TrainingWindows : TrainEndpoint(w, 1, FALSE)
    \/ TrainEndpoint(NoWindow, 1, TRUE)
    \/ \E w \in DirectWindows : TrainModel(w, 1)
    \/ \E load_raises \in BOOLEAN : Startup(load_raises)

Spec == Init /\ [][Next]_vars


(***************************************************************************)
(* The assembler on its own: prepare_training_data applied to every        *)
(* window and threshold.                                                   *)
(***************************************************************************)
PrepareTrainingData(w, min_impressions) ==
    /\ training' = [min_impressions |-> min_impressions,
                    df |-> prepare_training_data(w, min_impressions),
                    called |-> TRUE, window |-> w]
    /\ UNCHANGED <<model, scaler, encoders, cache, disk, response, runs>>

NextAssembler ==
    \E w \in Windows, min_impressions \in MinImpressionsChoices :
        PrepareTrainingData(w, min_impressions)

SpecAssembler == Init /\ [][NextAssembler]_vars


(***************************************************************************)
(* The trainer on its own: train_model applied once to the frame of every  *)
(* window and threshold.                                                   *)
(***************************************************************************)
NextTrainer ==
    \E w \in Windows, min_impressions \in MinImpressionsChoices :
        /\ runs = 0
        /\ TrainModel(w, min_impressions)

SpecTrainer == Init /\ [][NextTrainer]_vars

(***************************************************************************)
(* POST /train on its own: the first request of a fresh service, for every *)
(* window and threshold.                                                   *)
(***************************************************************************)
NextTrainEndpoint ==
    \E w \in Windows, min_impressions \in MinImpressionsChoices :
        /\ runs = 0
        /\ TrainEndpoint(w, min_impressions, FALSE)

SpecTrainEndpoint == Init /\ [][NextTrainEndpoint]_vars

(***************************************************************************)
(* The status endpoints, next to the operations that change what they      *)
(* report.                                                                 *)
(***************************************************************************)
\* GET /health
health_check ==
    /\ response' = [op |-> "health", status |-> "healthy",
                    model_loaded |-> model # None]
    /\ UNCHANGED <<model, scaler, encoders, cache, disk, training, runs>>

\* GET /model-info; coef_ and classes_ exist on a fitted classifier only
model_info ==
    /\ response' =
         IF model = None
         THEN [op |-> "model_info", status |-> "no_model",
               features_count |-> <<>>, classes |-> <<>>]
         ELSE [op |-> "model_info", status |-> "loaded",
               features_count |-> IF model.fitted THEN <<9>> ELSE <<>>,
               classes |-> IF model.fitted THEN <<0, 1>> ELSE <<>>]
    /\ UNCHANGED <<model, scaler, encoders, cache, disk, training, runs>>

\* the windows of the status checks: no event, one sample, positives only,
\* two balanced groups
StatusWindows == { w \in TrainingWindows : w[3] = Counts(0, 0) }

NextStatus ==
    \/ health_check
    \/ model_info
    \/ \E req \in PredictionRequests : Predict(req)
    \/ \E w \in StatusWindows : TrainEndpoint(w, 1, FALSE)
    \/ \E load_raises \in BOOLEAN : Startup(load_raises)

SpecStatus == Init /\ [][NextStatus]_vars

(***************************************************************************)
(* The feature builder and the boost translator on their own: the          *)
(* engineered features of both paths for every hour and day, and the boost *)
(* multiplier for every score in permille.                                 *)
(***************************************************************************)
MaxHour == 23
MaxDay == 6

\* probabilities in permille: 0 stands for 0.0, 1000 for 1.0
Permille == 0..1000

\* a training frame of one sample with the given hour and day
FeatureFrame(h, d) ==
    << [line_item_id |-> 9, hour_of_day |-> h, day_of_week |-> d,
        device_type |-> S_mobile, country |-> S_US, publisher_id |-> PyInt(1),
        clicked |-> 1] >>

\* features 6..8 as train_model and as predict_ctr_internal compute them
FeatureBuilder(h, d) ==
    /\ response' =
         [hour_of_day |-> h, day_of_week |-> d, op |-> "features",
          training_features |->
              SubSeq(TrainFeatures(FeatureFrame(h, d), FitEncoders(FeatureFrame(h, d), 1), 1),
                     7, 9),
          serving_features |->
              SubSeq(ServeFeatures(FitEncoders(FeatureFrame(h, d), 1),
                                   <<9, S_mobile, S_US, 1, h, d>>),
                     7, 9)]
    /\ UNCHANGED <<model, scaler, encoders, cache, disk, training, runs>>

\* the conversion of /predict applied to a score
BoostTranslator(ctr_score) ==
    /\ response' = [op |-> "boost", ctr_score |-> ctr_score,
                    boost_multiplier |-> boost_multiplier(ctr_score)]
    /\ UNCHANGED <<model, scaler, encoders, cache, disk, training, runs>>

NextFunctions ==
    \/ \E h \in 0..MaxHour, d \in 0..MaxDay : FeatureBuilder(h, d)
    \/ \E ctr_score \in Permille : BoostTranslator(ctr_score)

SpecFunctions == Init /\ [][NextFunctions]_vars

(***************************************************************************)
(* The query of prepare_training_data on its own.  The events table holds *)
(* events with a timestamp (in ticks of the table's resolution), an event  *)
(* type and nullable line_item_id, device_type and country; the query      *)
(* returns the rows its WHERE clause accepts.  The columns that only feed  *)
(* the grouping (publisher_id, hour_of_day, day_of_week) play no part in   *)
(* the selection and are modelled by the windows above.                    *)
(***************************************************************************)
MaxDaysBack == 2

PyStr(s) == [t |-> "str", v |-> s]

Timestamps == 0..(MaxDaysBack + 2)

\* datetime.now() at the time of the call
NowChoices == {MaxDaysBack, MaxDaysBack + 1}

EventTypes == {"impression", "click", "conversion"}

Event(ts, ty, li, dev, c) ==
    [timestamp |-> ts, event_type |-> ty, line_item_id |-> li,
     device_type |-> dev, country |-> c]

Events ==
    { Event(ts, ty, li, dev, c) :
        ts \in Timestamps, ty \in EventTypes, li \in {PyNone, PyInt(9)},
        dev \in {PyNone, PyStr(S_mobile)}, c \in {PyNone, PyStr(S_US)} }

\* the events table is empty or holds one event
Stores == {{}} \cup { {e} : e \in Events }

\* the WHERE clause of the query
Selected(e, start_date, end_date) ==
    /\ e.timestamp >= start_date
    /\ e.timestamp <= end_date
    /\ e.line_item_id.t # "None"
    /\ e.device_type.t # "None"
    /\ e.country.t # "None"
    /\ e.event_type \in {"impression", "click"}

\* end_date = datetime.now(); start_date = end_date - timedelta(days=days_back)
start_date(end_date, days_back) == end_date - days_back

\* client.execute(query, {'start_date': ..., 'end_date': ...})
Query(store, end_date, days_back) ==
    /\ response' = [op |-> "query", store |-> store,
                    start_date |-> start_date(end_date, days_back),
                    end_date |-> end_date,
                    result |-> { e \in store :
                        Selected(e, start_date(end_date, days_back), end_date) }]
    /\ UNCHANGED <<model, scaler, encoders, cache, disk, training, runs>>

NextQuery ==
    \E store \in Stores, end_date \in NowChoices, days_back \in 1..MaxDaysBack :
        Query(store, end_date, days_back)

SpecQuery == Init /\ [][NextQuery]_vars

(***************************************************************************)
(* Properties.                                                             *)
(***************************************************************************)
Loaded == model # None /\ scaler # None /\ encoders # None

NothingLoaded == model = None /\ scaler = None /\ encoders = None

\* the last request was a /predict that went through predict_ctr_internal
ScoredByInternal ==
    /\ response.op = "predict"
    /\ response.status # 503
    /\ response.internal_calls = 1

\* C1: every prediction that reaches predict_ctr_internal reads a classifier,
\* a scaler and codebooks that come from one and the same training run
C1_ReaderSeesOneRun ==
    (ScoredByInternal /\ Loaded) =>
        /\ model.run = scaler.run
        /\ model.run = encoders.run

\* C2: a /predict while no bundle is loaded is answered with the
\* model-unavailable signal (503), and while any piece is missing it is never
\* answered with a score
C2_NoBundleMeansUnavailable ==
    response.op = "predict" =>
        /\ NothingLoaded => response.status = 503 /\ response.detail = "Model not trained"
        /\ ~Loaded => response.status # 200

C2_Witness ==
    /\ response.op = "predict"
    /\ NothingLoaded
    /\ response.status = 503

\* C3: train_model on an empty sample set raises the no-data error and leaves
\* model, scaler and encoders as they were
C3_EmptyTrainingLeavesBundle ==
    [][ (response'.op = "train_model" /\ training'.df = <<>>) =>
            /\ response'.detail = "ValueError: No training data available"
            /\ model' = model
            /\ scaler' = scaler
            /\ encoders' = encoders ]_vars

C3_Witness ==
    /\ response.op = "train_model"
    /\ training.df = <<>>
    /\ response.detail = "ValueError: No training data available"
    /\ Loaded

\* C4: with the bundle loaded, a predict stores what it returns under its
\* key, and a predict whose key is already stored returns the stored value
\* without calling predict_ctr_internal
C4_RepeatedPredictServedFromCache ==
    [][ (response'.op = "predict" /\ Loaded) =>
            LET k == CacheKey(response'.request)
            IN  /\ response'.status = 200
                /\ CacheHas(cache', k)
                /\ CacheValue(cache', k)
                     = Score(response'.ctr_score, response'.confidence, response'.by)
                /\ IF CacheHas(cache, k)
                   THEN /\ response'.internal_calls = 0
                        /\ CacheValue(cache', k) = CacheValue(cache, k)
                   ELSE response'.internal_calls = 1 ]_vars

C4_Witness ==
    /\ response.op = "predict"
    /\ response.status = 200
    /\ response.internal_calls = 0
    /\ Loaded

\* C5: a training run leaves the cache as it is, and a predict for a key
\* stored before the bundle was replaced still returns the stored value
C5_RetrainKeepsCacheEntries ==
    [][ /\ response'.op \in {"train", "train_model"} => cache' = cache
        /\ (response'.op = "predict" /\ CacheHas(cache, CacheKey(response'.request))) =>
              /\ response'.status = 200
              /\ Score(response'.ctr_score, response'.confidence, response'.by)
                   = CacheValue(cache, CacheKey(response'.request)) ]_vars

\* a score computed by the classifier of an earlier run is served after a
\* later run replaced the classifier
C5_Witness ==
    /\ response.op = "predict"
    /\ response.status = 200
    /\ response.internal_calls = 0
    /\ response.by # <<>>
    /\ model # None
    /\ model.fitted
    /\ response.by[1] < model.run

\* C6: with a bundle loaded, an error inside predict_ctr_internal (here: the
\* classifier is not fitted) gives (0.01, 0.5) and a successful reply
C6_InternalErrorGivesDefault ==
    (ScoredByInternal /\ Loaded /\ ~model.fitted) =>
        /\ response.status = 200
        /\ response.ctr_score = 10
        /\ response.confidence = 500

C6_Witness ==
    /\ ScoredByInternal
    /\ Loaded
    /\ ~model.fitted
    /\ response.status = 200


\* the samples of training.df that carry the context of group g
RowsOfGroup(g, clicked) ==
    { i \in 1..Len(training.df) :
        /\ training.df[i].line_item_id = Groups[g].line_item_id
        /\ training.df[i].hour_of_day = Groups[g].hour_of_day
        /\ training.df[i].day_of_week = Groups[g].day_of_week
        /\ training.df[i].device_type = Groups[g].device_type
        /\ training.df[i].country = Groups[g].country
        /\ training.df[i].publisher_id.t # "None"
        /\ Groups[g].publisher_id.t # "None"
        /\ training.df[i].publisher_id.v = Groups[g].publisher_id.v
        /\ training.df[i].clicked = clicked }

\* the groups of the window: contexts with at least one event
GroupsOfWindow == { g \in 1..NumGroups : HasEvents(training.window, g) }

\* C7: every emitted sample belongs to a group with at least min_impressions
\* impressions, and a group with fewer impressions has no sample
C7_NoSampleBelowThreshold ==
    training.called =>
        /\ \A i \in 1..Len(training.df) :
              \E g \in GroupsOfWindow :
                  /\ i \in RowsOfGroup(g, 0) \cup RowsOfGroup(g, 1)
                  /\ training.window[g].impressions >= training.min_impressions
        /\ \A g \in GroupsOfWindow :
              training.window[g].impressions < training.min_impressions =>
                  RowsOfGroup(g, 0) \cup RowsOfGroup(g, 1) = {}

\* a group below the threshold is left out while another group is emitted
C7_Witness ==
    /\ training.called
    /\ Len(training.df) > 0
    /\ \E g \in GroupsOfWindow :
          /\ Groups[g].publisher_id.t # "None"
          /\ training.window[g].clicks > 0
          /\ training.window[g].impressions < training.min_impressions

\* C8: every group with I >= min_impressions impressions and C clicks has
\* exactly C positive and min(I - C, 3C) negative samples, so the negatives
\* exceed neither 3C nor I - C
C8_SampleCountsPerGroup ==
    training.called =>
        \A g \in GroupsOfWindow :
            training.window[g].impressions >= training.min_impressions =>
                LET I == training.window[g].impressions
                    C == training.window[g].clicks
                    negatives == Cardinality(RowsOfGroup(g, 0))
                IN  /\ Cardinality(RowsOfGroup(g, 1)) = C
                    /\ negatives = Min(I - C, 3 * C)
                    /\ negatives <= 3 * C
                    /\ negatives <= I - C

\* the serving-time code of the value a request carries in a column
ServedCode(req, col) ==
    ServeFeatures(encoders, CacheKey(req))[
        CASE col = "line_item_id" -> 1
          [] col = "device_type" -> 2
          [] col = "country" -> 3
          [] OTHER -> 4]

\* the string predict_ctr_internal looks up for a column
ServedString(req, col) ==
    CASE col = "line_item_id" -> Digits(req.line_item_id)
      [] col = "device_type" -> req.device_type
      [] col = "country" -> req.country
      [] OTHER -> Digits(OrZero(req.publisher_id))

\* C9: at serving time a value that is not in the codebook of its field is
\* encoded as 0, for each of the four categorical fields
C9_UnknownValueEncodedAsZero ==
    (ScoredByInternal /\ Loaded /\ response.status = 200 /\ response.by # <<>>) =>
        \A col \in CategoricalColumns :
            ~InClasses(encoders.classes[col], ServedString(response.request, col)) =>
                /\ ServedCode(response.request, col) = 0
                /\ response.by[3] = ServeFeatures(encoders, CacheKey(response.request))

Reverse(seq) == [i \in 1..Len(seq) |-> seq[Len(seq) + 1 - i]]
Rotate(seq, k) == [i \in 1..Len(seq) |-> seq[((i - 1 + k) % Len(seq)) + 1]]

\* the codebooks in memory are those of the latest run, which fitted them on
\* training.df (a later call with an empty frame would have emptied it)
FittedOnTrainingFrame ==
    /\ encoders # None
    /\ encoders.run = runs
    /\ Len(training.df) > 0

\* the serving-time code of the string fit saw in row i of a column
SeenCode(col, i) ==
    Encode(encoders, col, ColumnAsStr(training.df, col)[i],
           IF col = "line_item_id" THEN training.df[i].line_item_id ELSE 0)

\* C10: every value seen by fit gets a code in [0, number of known values),
\* distinct values get distinct codes, and the codes are the same for any
\* order in which the values are met
C10_CodesOfSeenValues ==
    FittedOnTrainingFrame =>
        \A col \in CategoricalColumns :
            LET values == ColumnAsStr(training.df, col)
                known == { values[i] : i \in 1..Len(values) }
            IN  /\ Len(encoders.classes[col]) = Cardinality(known)
                /\ \A i \in 1..Len(values) :
                      SeenCode(col, i) \in 0..(Cardinality(known) - 1)
                /\ \A i, j \in 1..Len(values) :
                      values[i] # values[j] => SeenCode(col, i) # SeenCode(col, j)
                /\ fit(Reverse(values)) = encoders.classes[col]
                /\ \A k \in 1..Len(values) : fit(Rotate(values, k)) = encoders.classes[col]

\* two line items were fitted whose string order differs from the order met
C10_Witness ==
    /\ FittedOnTrainingFrame
    /\ Len(encoders.classes["line_item_id"]) = 2
    /\ training.df[1].line_item_id = 9
    /\ encoders.classes["line_item_id"][1] = Digits(10)

\* C11: for every hour in 0..23 and day in 0..6 both paths set is_weekend
\* exactly on days 5 and 6, is_business_hours exactly on hours 9..17 and
\* is_evening exactly on hours 18..22, so the last two are never both set
C11_EngineeredFeatures ==
    (response.op = "features"
        /\ response.hour_of_day \in 0..23 /\ response.day_of_week \in 0..6) =>
        LET expected ==
                << IF response.day_of_week \in {5, 6} THEN 1 ELSE 0,
                   IF response.hour_of_day \in 9..17 THEN 1 ELSE 0,
                   IF response.hour_of_day \in 18..22 THEN 1 ELSE 0 >>
        IN  /\ response.serving_features = expected
            /\ response.training_features = expected
            /\ ~(response.serving_features[2] = 1 /\ response.serving_features[3] = 1)

\* hour 17 on a Saturday: the last business hour, on a weekend
C11_Witness ==
    /\ response.op = "features"
    /\ response.hour_of_day = 17
    /\ response.day_of_week = 5
    /\ response.serving_features = <<1, 1, 0>>
    /\ response.training_features = <<1, 1, 0>>

\* C13: the boost multiplier is clamp(ctr_score / 0.01, 0.5, 2.0): it lies in
\* [0.5, 2.0], does not decrease when the score grows, and is 1.0 at 0.01,
\* 2.0 at 0.02 and 0.5 at 0.001
C13_BoostIsClamp ==
    response.op = "boost" =>
        LET c == response.ctr_score
            ratio == c * 100
        IN  /\ response.boost_multiplier =
                 (IF ratio < 500 THEN 500 ELSE IF ratio > 2000 THEN 2000 ELSE ratio)
            /\ response.boost_multiplier \in 500..2000
            /\ \A lower \in 0..c : boost_multiplier(lower) <= response.boost_multiplier
            /\ c = 10 => response.boost_multiplier = 1000
            /\ c = 20 => response.boost_multiplier = 2000
            /\ c = 1 => response.boost_multiplier = 500

\* a score of 0.001, which the floor lifts to 0.5
C13_Witness ==
    /\ response.op = "boost"
    /\ response.ctr_score = 1
    /\ response.boost_multiplier = 500

\* a training sample and a request that carry the same context
SameContext(row, req) ==
    /\ row.line_item_id = req.line_item_id
    /\ row.device_type = req.device_type
    /\ row.country = req.country
    /\ row.publisher_id.t # "None"
    /\ row.publisher_id.v = OrZero(req.publisher_id)
    /\ row.hour_of_day = req.hour_of_day
    /\ row.day_of_week = req.day_of_week

\* C12: the feature vector predict_ctr_internal assembles for a request
\* equals, position by position, the row train_model built for a sample with
\* the same context
C12_ServingVectorEqualsTraining ==
    (ScoredByInternal /\ Loaded /\ response.status = 200 /\ response.by # <<>>
        /\ FittedOnTrainingFrame) =>
        \A i \in 1..Len(training.df) :
            SameContext(training.df[i], response.request) =>
                response.by[3] = TrainFeatures(training.df, encoders, i)

\* the request that differs from req only in that publisher_id is 0 where
\* req has none, and absent where req has 0
Twin(req) ==
    [req EXCEPT !.publisher_id = IF req.publisher_id.t = "None" THEN PyInt(0) ELSE PyNone]

AbsentOrZero(req) == req.publisher_id = PyNone \/ req.publisher_id = PyInt(0)

\* C14: of two successive predicts that differ only in publisher_id being
\* absent or 0, the second is served from the entry of the first, without a
\* call of predict_ctr_internal, and returns the same result
C14_NoneAndZeroShareKey ==
    [][ (/\ response.op = "predict" /\ response.status = 200
         /\ response'.op = "predict"
         /\ AbsentOrZero(response'.request)
         /\ response.request = Twin(response'.request)) =>
            /\ CacheKey(response.request) = CacheKey(response'.request)
            /\ response'.status = 200
            /\ response'.internal_calls = 0
            /\ response'.ctr_score = response.ctr_score
            /\ response'.confidence = response.confidence
            /\ response'.boost_multiplier = response.boost_multiplier
            /\ response'.by = response.by ]_vars

\* a request without publisher_id answered from the one entry of the cache,
\* which is stored under publisher 0
C14_Witness ==
    /\ response.op = "predict"
    /\ response.status = 200
    /\ response.internal_calls = 0
    /\ response.request.publisher_id = PyNone
    /\ Len(cache) = 1
    /\ cache[1].key[4] = 0

\* the keys of a cache, from least to most recently used
Keys(c) == [i \in 1..Len(c) |-> c[i].key]

\* C15: the cache never holds more than maxsize entries; a predict for a
\* stored key makes that key the most recently used and evicts nothing; a
\* predict that inserts a new key into a full cache evicts exactly one entry,
\* the least recently used one, and into a cache with room evicts nothing
C15_BoundedLeastRecentlyUsed ==
    [][ response'.op = "predict" =>
            LET k == CacheKey(response'.request)
            IN  /\ Len(cache') <= maxsize
                /\ CacheHas(cache, k) =>
                      Keys(cache') = Append(RemoveAt(Keys(cache), CacheIndex(cache, k)), k)
                /\ (~CacheHas(cache, k) /\ response'.status = 200) =>
                      IF Len(cache) = maxsize
                      THEN Keys(cache') = Append(Tail(Keys(cache)), k)
                      ELSE Keys(cache') = Append(Keys(cache), k)
                /\ (~CacheHas(cache, k) /\ response'.status # 200) => cache' = cache ]_vars

\* a predict whose insertion evicted an entry from the full cache
C15_Witness ==
    /\ response.op = "predict"
    /\ response.status = 200
    /\ response.internal_calls = 1
    /\ response.evicted # <<>>
    /\ Len(cache) = maxsize
    /\ ~CacheHas(cache, response.evicted[1])

\* C16: an I/O failure of save_models or load_models reaches the caller as a
\* failure: /train does not answer with success unless the three files hold
\* the bundle in memory, and a start whose load_models could not read the
\* files on disk does not come up as a normal start
C16_PersistenceFaultPropagated ==
    /\ (response.op = "train" /\ disk # Current) => response.status = 500
    /\ (response.op = "startup" /\ Current # disk) => response.status # 0

\* C17: after load_models returned, model, scaler and encoders are either
\* all set or all None
C17_LoadIsAllOrNothing ==
    response.op = "startup" => (Loaded \/ NothingLoaded)

\* C18: a /train request whose assembled frame is empty is answered with
\* HTTP 400 'No training data available', not with the 500 of a failed run
C18_EmptyTrainingRejectedWith400 ==
    (/\ response.op = "train"
     /\ response.detail # "Training failed: query"
     /\ training.called
     /\ training.df = <<>>) =>
        /\ response.status = 400
        /\ response.detail = "No training data available"

\* C19: the query returns exactly the events of the table with
\* start <= timestamp < end, a line_item_id, device_type and country that are
\* not null and an event_type of impression or click; an event stamped
\* exactly at end is not returned
C19_WindowIsHalfOpen ==
    response.op = "query" =>
        \A e \in response.store :
            e \in response.result <=>
                /\ response.start_date <= e.timestamp
                /\ e.timestamp < response.end_date
                /\ e.line_item_id # PyNone
                /\ e.device_type # PyNone
                /\ e.country # PyNone
                /\ e.event_type \in {"impression", "click"}

\* C20: every result that predict returns, computed by the classifier,
\* served from the cache or produced by the fallback, has
\* 0 <= ctr_score <= 1 and 0.5 <= confidence <= 1 (in permille: 0..1000 and
\* 500..1000)
C20_ScoreAndConfidenceInRange ==
    (response.op = "predict" /\ response.status = 200) =>
        /\ response.ctr_score \in 0..1000
        /\ response.confidence \in 500..1000

\* a result of the classifier that favours no click: the confidence is the
\* probability of the other class
C20_Witness ==
    /\ response.op = "predict"
    /\ response.status = 200
    /\ Loaded
    /\ response.by # <<>>
    /\ response.ctr_score < 500
    /\ response.confidence = 1000 - response.ctr_score

\* C21: a predict call, whatever its outcome, leaves model, scaler and
\* encoders as they were before the call (and the files with them); only the
\* cache may change
C21_PredictLeavesBundle ==
    [][response'.op = "predict" =>
          /\ model' = model
          /\ scaler' = scaler
          /\ encoders' = encoders
          /\ disk' = disk]_vars

\* a request on a complete bundle that was scored and entered the cache
C21_Witness ==
    /\ response.op = "predict"
    /\ response.status = 200
    /\ response.internal_calls = 1
    /\ Loaded
    /\ CacheHas(cache, CacheKey(response.request))

\* the training runs whose pieces a bundle holds
RunsOf(b) ==
    (IF b.model = None THEN {} ELSE {b.model.run})
        \cup (IF b.scaler = None THEN {} ELSE {b.scaler.run})
        \cup (IF b.encoders = None THEN {} ELSE {b.encoders.run})

\* C22: the three files never hold pieces of different training runs,
\* whatever /train requests were made and wherever save_models failed, and
\* the bundle that load_models assembles from them is not a mixed one
C22_FilesAreOfOneRun ==
    /\ Cardinality(RunsOf(disk)) <= 1
    /\ response.op = "startup" => Cardinality(RunsOf(Current)) <= 1

\* the last operation was a training run on a non-empty frame in which
\* train_model raised
TrainModelFailed ==
    /\ training.called
    /\ training.df # <<>>
    /\ \/ response.op = "train_model" /\ response.detail # "none"
       \/ /\ response.op = "train"
          /\ response.detail \in { "Training failed: ValueError: train_test_split",
                                   "Training failed: ValueError: fit",
                                   "Training failed: ValueError: roc_auc_score" }

\* C23: a training run on a non-empty frame that fails after it started
\* leaves model, scaler and encoders as they were before the run
C23_FailedRunLeavesBundle ==
    [][(runs' # runs /\ TrainModelFailed') => Current' = Current]_vars

\* the key of the request that the last reply answers
AnsweredKey == CacheKey(response.request)

\* the cache holds the default of a scoring fault under the key
HoldsDefault(c, key) == CacheHas(c, key) /\ CacheValue(c, key) = DefaultScore

\* C24: the default (0.01, 0.5) of a scoring fault is stored under its key
\* and later calls with that key get it from the cache without scoring, also
\* when the bundle is complete and fitted by then; a call that fails with
\* 'Model not trained or loaded' stores nothing, and a key that is not in the
\* cache is scored by the classifier once the bundle is complete and fitted
C24_DefaultIsCachedErrorIsNot ==
    [][response'.op = "predict" =>
          /\ (response'.status = 200 /\ response'.by = <<>>) =>
                 HoldsDefault(cache', AnsweredKey')
          /\ (~ModelUnavailable(model) /\ HoldsDefault(cache, AnsweredKey')) =>
                 /\ response'.status = 200
                 /\ response'.ctr_score = DefaultScore.probability
                 /\ response'.confidence = DefaultScore.confidence
                 /\ response'.internal_calls = 0
          /\ response'.status = 500 =>
                 /\ cache' = cache
                 /\ ~CacheHas(cache', AnsweredKey')
          /\ (Loaded /\ model.fitted /\ ~CacheHas(cache, AnsweredKey')) =>
                 /\ response'.status = 200
                 /\ response'.internal_calls = 1
                 /\ response'.by # <<>>]_vars

\* the stored default is served although the bundle is complete and fitted
C24_Witness ==
    /\ response.op = "predict"
    /\ response.status = 200
    /\ response.internal_calls = 0
    /\ response.by = <<>>
    /\ Loaded
    /\ model.fitted
    /\ HoldsDefault(cache, AnsweredKey)

\* the samples of the frame that stem from group g, a group of events
\* without publisher
RowsWithoutPublisher(g) ==
    { i \in 1..Len(training.df) :
        /\ training.df[i].line_item_id = Groups[g].line_item_id
        /\ training.df[i].hour_of_day = Groups[g].hour_of_day
        /\ training.df[i].day_of_week = Groups[g].day_of_week
        /\ training.df[i].device_type = Groups[g].device_type
        /\ training.df[i].country = Groups[g].country
        /\ training.df[i].publisher_id.t = "None" }

\* C25: the events without publisher_id are kept by the assembler: a group
\* of such events that reaches the threshold and has a click has its samples
\* in the frame, and the string fit sees for their publisher is the string
\* the scorer looks up for a request without publisher_id
C25_AbsentPublisherKeptAndMatched ==
    training.called =>
        \A g \in GroupsOfWindow :
            (/\ Groups[g].publisher_id.t = "None"
             /\ training.window[g].impressions >= training.min_impressions
             /\ training.window[g].clicks > 0) =>
                /\ RowsWithoutPublisher(g) # {}
                /\ \A i \in RowsWithoutPublisher(g) :
                      Str(training.df[i].publisher_id) = Digits(OrZero(PyNone))

\* the groups of the window that reach the threshold
RetainedGroups ==
    { g \in GroupsOfWindow :
        training.window[g].impressions >= training.min_impressions }

\* C26: a retained group without clicks has no sample, a group with more
\* clicks than impressions has no negative sample, and a window whose
\* retained groups all have no click gives the empty frame, which /train
\* answers with 'No training data available'
C26_ZeroClickGroupsGiveNoData ==
    (training.called /\ response.op = "train") =>
        /\ \A g \in RetainedGroups :
              /\ training.window[g].clicks = 0 =>
                     RowsOfGroup(g, 0) \cup RowsOfGroup(g, 1) = {}
              /\ training.window[g].clicks > training.window[g].impressions =>
                     RowsOfGroup(g, 0) = {}
        /\ (\A g \in RetainedGroups : training.window[g].clicks = 0) =>
              /\ training.df = <<>>
              /\ response.detail = "Training failed: 400: No training data available"
              /\ runs = 0

\* a window with events in which a group with a publisher reaches the
\* threshold, no retained group has a click, and /train found no data
C26_Witness ==
    /\ training.called
    /\ response.op = "train"
    /\ \E g \in RetainedGroups :
          /\ Groups[g].publisher_id.t # "None"
          /\ training.window[g].impressions = MaxImpressions
    /\ \A g \in RetainedGroups : training.window[g].clicks = 0
    /\ \E g \in GroupsOfWindow : training.window[g].clicks > 0
    /\ training.df = <<>>
    /\ response.detail = "Training failed: 400: No training data available"

\* the last reply is a status reply that reports the model as loaded
ReportsLoaded ==
    \/ response.op = "health" /\ response.model_loaded
    \/ response.op = "model_info" /\ response.status = "loaded"

\* C27: /health and /model-info report the model as loaded exactly when
\* /predict does not reject a request as 'Model not trained', and whenever
\* they report loaded, model, scaler and encoders are all present and every
\* predict request gets a score
C27_StatusMatchesPredict ==
    response.op \in {"health", "model_info"} =>
        /\ ReportsLoaded <=> ~ModelUnavailable(model)
        /\ ReportsLoaded =>
              /\ Loaded
              /\ \A req \in PredictionRequests :
                    ~predict_ctr(cache, req, Current).raised

====
